---- MODULE Spec2Model ----
(***************************************************************************)
(* A model of the gothink core: the in-memory session store (Storage, its   *)
(* five collections, the session registry and their read-write mutexes),    *)
(* and the retry layer (RetryWithConfig, calculateDelay).                   *)
(*                                                                          *)
(* Store: every goroutine serving a tool call is a process p; each action   *)
(* is one step of a Storage method between two synchronisation points.      *)
(* Unsynchronised accesses to the Go map s.sessions are data races; their   *)
(* outcome is a choice among what the Go runtime can do (RaceOutcomes).     *)
(***************************************************************************)
EXTENDS Integers, Sequences, FiniteSets, TLC

\* ------------------------------------------------------------------ bounds
NProcs == 2
MaxCalls == 2
MaxThoughtCalls == 3
MaxQuota == 2
MaxClock == 1
MaxStored == 3
MaxBatch == 2
MaxRetriesBound == 3
MaxDelayBound == 3
MaxMultiplier == 4
FloatMax == 15
DurationMax == 7
IntMax == 15
MaxRecords == 2

DefaultLimit == 10

Procs == 1 .. NProcs
\* The session IDs and the artifact IDs that callers pass.
SessionIDs == {1, 2}


\* ------------------------------------------------------------ store: state
\* The five maps of Storage, in the order GetSessionStats reads them.
CollOrder == <<"thoughts", "mentalModels", "stochasticAlgorithms", "decisions", "visualData">>
Collections == {CollOrder[i] : i \in 1 .. Len(CollOrder)}
\* The six sync.RWMutex fields of Storage.
Mutexes == Collections \cup {"sessions"}

RECURSIVE SumOver(_, _)
SumOver(f, S) == IF S = {} THEN 0
                 ELSE LET x == CHOOSE y \in S : TRUE IN f[x] + SumOver(f, S \ {x})

VARIABLES
  maxThoughts,  \* config.MaxThoughtsPerSession
  coll,         \* coll[c]: the keys (artifact IDs) of the map c of Storage
  sessions,     \* s.sessions: session ID -> *SessionData (0: no entry)
  heap,         \* the SessionData objects allocated so far; a pointer is an index
  mutex,        \* mutex[m] = [w |-> holder of Lock or 0, r |-> holders of RLock]
  clock,        \* what time.Now() last returned
  crashed,      \* the runtime threw a fatal error (concurrent map access)
  proc,         \* per goroutine: the frame of the Storage method it runs (Idle: none)
  ret,          \* per goroutine: what its last call returned
  calls,        \* calls started so far
  budget,       \* calls the handlers make in all
  nOk, nLimit,  \* per session: AddThought calls that returned nil / the limit error
  config,       \* the *RetryConfig passed to RetryWithConfig
  fn,           \* the RetryFunc: how many of its first invocations fail
  ctx,          \* the context: cancelled or not (and when it was cancelled)
  retry,        \* RetryWithConfig's frame: pc, attempt, lastErr, delay, result
  repo,         \* the SecurityRepository: cves, techniques, procedures (ID -> record)
  repoLog,      \* per map of the repository: the records stored so far, in order
  repoRet,      \* what the last Get* call on the repository returned
  pipeline      \* DownloadAndStoreAllIntelligence's frame: the feed it is at, its result

repoVars == <<repo, repoLog, repoRet>>
storeVars == <<maxThoughts, coll, sessions, heap, mutex, clock, crashed, proc, ret,
               calls, budget, nOk, nLimit, repoVars>>
retryVars == <<config, fn, ctx, retry, pipeline>>
vars == <<storeVars, retryVars>>

\* What no Storage method changes: the configuration, the call budget, and the
\* retry layer's state.
fixed == <<maxThoughts, budget, retryVars, repoVars>>

\* An artifact ID: "" (none supplied), a caller's, or one generateID made.
NoID == <<"", 0, 0>>
CallerIDs == {<<"c", 1, 0>>}

NanosPerSecond == 1000000000

\* generateID: "%d-%d" of time.Now().UnixNano() and of a second time.Now()'s
\* Nanosecond(), the nanoseconds within its second.
generateID(t1, t2) == <<"g", t1, t2 % NanosPerSecond>>

\* The SessionData literal of getSession and CreateSession.
NewSessionData(id, now1, now2) ==
  [ID |-> id, CreatedAt |-> now1, LastAccessedAt |-> now2, ThoughtCount |-> 0,
   ToolsUsed |-> <<>>, TotalOperations |-> 0, IsActive |-> TRUE,
   RemainingThoughts |-> maxThoughts]

NoRet == [kind |-> "none"]
EmptySnap == [c \in Collections |-> {}]

\* A goroutine's frame: pc (position), ra (where getSession returns to), op
\* (the method), sid and art (the sessionID and artifact-ID arguments), session
\* (the local *SessionData), todo and snap
\* (collections still to read, and what was read of each), old (what AddThought
\* found on taking its lock: the thoughts, the session's object if any, t's ID).
NoOld == [thoughts |-> {}, session |-> << >>, art |-> NoID]
Idle == [pc |-> "idle", ra |-> "idle", op |-> "none", sid |-> 1, art |-> NoID,
         session |-> 0, todo |-> << >>, snap |-> EmptySnap, old |-> NoOld]

\* New: every map empty, every mutex free.
StoreInit ==
  /\ maxThoughts \in 0 .. MaxQuota
  /\ coll = [c \in Collections |-> {}]
  /\ sessions = [s \in SessionIDs |-> 0]
  /\ heap = << >>
  /\ mutex = [m \in Mutexes |-> [w |-> 0, r |-> {}]]
  /\ clock = 0
  /\ crashed = FALSE
  /\ proc = [p \in Procs |-> Idle]
  /\ ret = [p \in Procs |-> NoRet]
  /\ calls = 0
  /\ nOk = [s \in SessionIDs |-> 0]
  /\ nLimit = [s \in SessionIDs |-> 0]

\* ------------------------------------------------------- store: the mutexes
\* sync.RWMutex: Lock waits for no writer and no reader, RLock for no writer.
CanLock(m) == mutex[m].w = 0 /\ mutex[m].r = {}
CanRLock(m) == mutex[m].w = 0
Locked(m, p) == [mutex EXCEPT ![m].w = p]
Unlocked(m) == [mutex EXCEPT ![m].w = 0]
RLocked(m, p) == [mutex EXCEPT ![m].r = @ \cup {p}]
RUnlocked(m, p) == [mutex EXCEPT ![m].r = @ \ {p}]

\* The collection a method works on.
CollOf(o) ==
  CASE o = "AddThought" -> "thoughts"
    [] o = "AddMentalModel" -> "mentalModels"
    [] o = "AddStochasticAlgorithm" -> "stochasticAlgorithms"
    [] o = "AddDecision" -> "decisions"
    [] o = "AddVisualData" -> "visualData"
    [] o = "GetThoughts" -> "thoughts"
    [] o = "GetMentalModels" -> "mentalModels"
    [] o = "GetStochasticAlgorithms" -> "stochasticAlgorithms"
    [] o = "GetDecisions" -> "decisions"
    [] o = "GetVisualData" -> "visualData"

\* --------------------------------------------- store: races on s.sessions
\* Positions whose next step writes the map s.sessions and a SessionData
\* field without holding sessionsMutex (the tail of every Add* method).
UnguardedWritePcs == {"atInsert", "addTouch"}
\* Positions whose next step accesses s.sessions while holding sessionsMutex.
GuardedPcs == {"gsBody", "csBody"}

\* p's next access to s.sessions is concurrent with another goroutine's, one
\* of the two being an unguarded write.
Racing(p) ==
  \/ /\ proc[p].pc \in GuardedPcs
     /\ \E q \in Procs \ {p} : proc[q].pc \in UnguardedWritePcs
  \/ /\ proc[p].pc \in UnguardedWritePcs
     /\ \E q \in Procs \ {p} : proc[q].pc \in UnguardedWritePcs \cup GuardedPcs

\* What a Go build can do with a racing map access: carry on as if the
\* accesses were ordered, throw "fatal error: concurrent map writes" (or
\* "concurrent map read and map write"), or, for a lookup, miss an entry
\* that a concurrent writer is moving.
RaceOutcomes(p, lookup) ==
  IF Racing(p) THEN {"ok", "fatal"} \cup (IF lookup THEN {"miss"} ELSE {})
  ELSE {"ok"}

\* ------------------------------------------------------ store: the actions
\* A handler calls a Storage method: frame is the method's frame at its first
\* statement.
Begin(p, frame) ==
  /\ proc[p].pc = "idle"
  /\ ~crashed
  /\ calls < budget
  /\ calls' = calls + 1
  /\ proc' = [proc EXCEPT ![p] = frame]
  /\ ret' = [ret EXCEPT ![p] = NoRet]

\* The method returns r: its frame is gone.
Return(p, r) ==
  /\ proc' = [proc EXCEPT ![p] = Idle]
  /\ ret' = [ret EXCEPT ![p] = r]

Goto(p, where) == proc' = [proc EXCEPT ![p].pc = where]

\* getSession, first half: s.sessionsMutex.Lock().
getSessionLock(p) ==
  /\ proc[p].pc = "gsLock"
  /\ ~crashed
  /\ CanLock("sessions")
  /\ mutex' = Locked("sessions", p)
  /\ Goto(p, "gsBody")
  /\ UNCHANGED <<fixed, coll, sessions, heap, clock, crashed, ret, calls, nOk, nLimit>>

\* getSession, second half: look the session up, create it when absent,
\* unlock (deferred) and return the pointer.
getSessionBody(p) ==
  /\ proc[p].pc = "gsBody"
  /\ ~crashed
  /\ \E out \in RaceOutcomes(p, TRUE) :
       IF out = "fatal"
       THEN /\ crashed' = TRUE
            /\ UNCHANGED <<sessions, heap, mutex, clock, proc>>
       ELSE /\ crashed' = FALSE
            /\ LET exists == sessions[proc[p].sid] # 0 /\ out # "miss"
               IN IF exists
                  THEN /\ proc' = [proc EXCEPT ![p].session = sessions[proc[p].sid],
                                               ![p].pc = proc[p].ra]
                       /\ UNCHANGED <<sessions, heap, clock>>
                  ELSE \E t1 \in clock .. MaxClock : \E t2 \in t1 .. MaxClock :
                         /\ heap' = Append(heap, NewSessionData(proc[p].sid, t1, t2))
                         /\ sessions' = [sessions EXCEPT ![proc[p].sid] = Len(heap) + 1]
                         /\ proc' = [proc EXCEPT ![p].session = Len(heap) + 1,
                                                 ![p].pc = proc[p].ra]
                         /\ clock' = t2
            /\ mutex' = Unlocked("sessions")
  /\ UNCHANGED <<fixed, coll, ret, calls, nOk, nLimit>>

getSession(p) ==
  \/ getSessionLock(p)
  \/ getSessionBody(p)

\* A handler calls CreateSession.
CallCreateSession(p) ==
  /\ \E s \in SessionIDs :
       Begin(p, [Idle EXCEPT !.pc = "csLock", !.op = "CreateSession", !.sid = s])
  /\ UNCHANGED <<fixed, coll, sessions, heap, mutex, clock, crashed, nOk, nLimit>>

\* CreateSession: s.sessionsMutex.Lock().
CreateSessionLock(p) ==
  /\ proc[p].pc = "csLock"
  /\ ~crashed
  /\ CanLock("sessions")
  /\ mutex' = Locked("sessions", p)
  /\ Goto(p, "csBody")
  /\ UNCHANGED <<fixed, coll, sessions, heap, clock, crashed, ret, calls, nOk, nLimit>>

\* CreateSession: a new SessionData is put under the ID, whatever was there;
\* unlock (deferred) and return the pointer.
CreateSessionBody(p) ==
  /\ proc[p].pc = "csBody"
  /\ ~crashed
  /\ \E out \in RaceOutcomes(p, FALSE) :
       IF out = "fatal"
       THEN /\ crashed' = TRUE
            /\ UNCHANGED <<sessions, heap, mutex, clock, proc, ret>>
       ELSE \E t1 \in clock .. MaxClock : \E t2 \in t1 .. MaxClock :
            /\ crashed' = FALSE
            /\ heap' = Append(heap, NewSessionData(proc[p].sid, t1, t2))
            /\ sessions' = [sessions EXCEPT ![proc[p].sid] = Len(heap) + 1]
            /\ clock' = t2
            /\ Return(p, [kind |-> "session", session |-> proc[p].sid, ptr |-> Len(heap) + 1])
            /\ mutex' = Unlocked("sessions")
  /\ UNCHANGED <<fixed, coll, calls, nOk, nLimit>>

CreateSession(p) ==
  \/ CallCreateSession(p)
  \/ CreateSessionLock(p)
  \/ CreateSessionBody(p)

\* A handler calls AddThought with an empty or a caller-chosen thought ID.
CallAddThought(p) ==
  /\ \E s \in SessionIDs, id \in {NoID} \cup CallerIDs :
       Begin(p, [Idle EXCEPT !.pc = "atLock", !.op = "AddThought", !.sid = s, !.art = id])
  /\ UNCHANGED <<fixed, coll, sessions, heap, mutex, clock, crashed, nOk, nLimit>>

\* AddThought: s.thoughtsMutex.Lock(), then the call of getSession.
AddThoughtLock(p) ==
  /\ proc[p].pc = "atLock"
  /\ ~crashed
  /\ CanLock("thoughts")
  /\ mutex' = Locked("thoughts", p)
  /\ proc' = [proc EXCEPT ![p].pc = "gsLock", ![p].ra = "atCheck",
                           ![p].old = [thoughts |-> coll["thoughts"],
                                       session |-> IF sessions[proc[p].sid] = 0 THEN << >>
                                                   ELSE <<heap[sessions[proc[p].sid]]>>,
                                       art |-> proc[p].art]]
  /\ UNCHANGED <<fixed, coll, sessions, heap, clock, crashed, ret, calls, nOk, nLimit>>

ThoughtLimitReachedOffByOne(count, limit) == count > limit

LimitErrorUnnamed(sessionID) == [kind |-> "limit", session |-> 0]

\* fmt.Errorf("thought limit reached for session %s", sessionID).
LimitError(sessionID) == [kind |-> "limit", session |-> sessionID]

\* AddThought's quota test.
ThoughtLimitReached(count, limit) == count >= limit

\* AddThought: the quota check on the session getSession returned; on a full
\* session the error return (with the deferred unlock).
AddThoughtCheck(p) ==
  /\ proc[p].pc = "atCheck"
  /\ ~crashed
  /\ IF ThoughtLimitReached(heap[proc[p].session].ThoughtCount, maxThoughts)
     THEN /\ Return(p, LimitError(proc[p].sid))
          /\ nLimit' = [nLimit EXCEPT ![proc[p].sid] = @ + 1]
          /\ mutex' = Unlocked("thoughts")
     ELSE /\ Goto(p, "atInsert")
          /\ UNCHANGED <<ret, nLimit, mutex>>
  /\ UNCHANGED <<fixed, coll, sessions, heap, clock, crashed, calls, nOk>>

\* The ID an Add* method stores the artifact under.
AssignID(id, t1, t2) == IF id = NoID THEN generateID(t1, t2) ELSE id

\* AddThought: ID, CreatedAt, the insertion, the session update (ThoughtCount++,
\* LastAccessedAt, s.sessions[sessionID] = session) and the return.
AddThoughtInsert(p) ==
  /\ proc[p].pc = "atInsert"
  /\ ~crashed
  /\ \E out \in RaceOutcomes(p, FALSE) :
       IF out = "fatal"
       THEN /\ crashed' = TRUE
            /\ UNCHANGED <<coll, sessions, heap, mutex, clock, proc, ret, nOk>>
       ELSE \E t1 \in clock .. MaxClock : \E t2 \in t1 .. MaxClock :
            /\ crashed' = FALSE
            /\ coll' = [coll EXCEPT !["thoughts"] = @ \cup {AssignID(proc[p].art, t1, t2)}]
            /\ heap' = [heap EXCEPT ![proc[p].session].ThoughtCount = @ + 1,
                                    ![proc[p].session].LastAccessedAt = t2]
            /\ sessions' = [sessions EXCEPT ![proc[p].sid] = proc[p].session]
            /\ clock' = t2
            /\ Return(p, [kind |-> "ok", session |-> proc[p].sid])
            /\ nOk' = [nOk EXCEPT ![proc[p].sid] = @ + 1]
            /\ mutex' = Unlocked("thoughts")
  /\ UNCHANGED <<fixed, calls, nLimit>>

AddThought(p) ==
  \/ CallAddThought(p)
  \/ AddThoughtLock(p)
  \/ AddThoughtCheck(p)
  \/ AddThoughtInsert(p)

\* What a write or read of a SessionData's LastAccessedAt (a multi-word
\* time.Time) yields: the value, or any value when the access races.
Torn(t, racing) == IF racing THEN 0 .. MaxClock ELSE {t}

\* A handler calls o, one of AddMentalModel, AddStochasticAlgorithm, AddDecision
\* and AddVisualData, with an empty or a caller-chosen artifact ID.
CallAdd(p, o) ==
  /\ \E s \in SessionIDs, id \in {NoID} \cup CallerIDs :
       Begin(p, [Idle EXCEPT !.pc = "addLock", !.op = o, !.sid = s, !.art = id])
  /\ UNCHANGED <<fixed, coll, sessions, heap, mutex, clock, crashed, nOk, nLimit>>

\* Add*: the collection's Lock(), ID, CreatedAt and the insertion, then the
\* call of getSession.
AddInsert(p, o) ==
  /\ proc[p].pc = "addLock"
  /\ proc[p].op = o
  /\ ~crashed
  /\ CanLock(CollOf(o))
  /\ mutex' = Locked(CollOf(o), p)
  /\ \E t1 \in clock .. MaxClock : \E t2 \in t1 .. MaxClock :
       /\ coll' = [coll EXCEPT ![CollOf(o)] = @ \cup {AssignID(proc[p].art, t1, t2)}]
       /\ clock' = t2
  /\ proc' = [proc EXCEPT ![p].pc = "gsLock", ![p].ra = "addTouch"]
  /\ UNCHANGED <<fixed, sessions, heap, crashed, ret, calls, nOk, nLimit>>

\* Add*: the session update after getSession has returned and released
\* sessionsMutex (LastAccessedAt, s.sessions[sessionID] = session), and the
\* return with the deferred Unlock().
AddTouch(p, o) ==
  /\ proc[p].pc = "addTouch"
  /\ proc[p].op = o
  /\ ~crashed
  /\ \E out \in RaceOutcomes(p, FALSE) :
       IF out = "fatal"
       THEN /\ crashed' = TRUE
            /\ UNCHANGED <<sessions, heap, mutex, clock, proc, ret>>
       ELSE \E t \in clock .. MaxClock : \E stored \in Torn(t, Racing(p)) :
            /\ crashed' = FALSE
            /\ heap' = [heap EXCEPT ![proc[p].session].LastAccessedAt = stored]
            /\ sessions' = [sessions EXCEPT ![proc[p].sid] = proc[p].session]
            /\ clock' = t
            /\ Return(p, [kind |-> "ok", session |-> proc[p].sid])
            /\ mutex' = Unlocked(CollOf(o))
  /\ UNCHANGED <<fixed, coll, calls, nOk, nLimit>>

AddArtifact(p, o) ==
  \/ CallAdd(p, o)
  \/ AddInsert(p, o)
  \/ AddTouch(p, o)

AddMentalModel(p) == AddArtifact(p, "AddMentalModel")
AddStochasticAlgorithm(p) == AddArtifact(p, "AddStochasticAlgorithm")
AddDecision(p) == AddArtifact(p, "AddDecision")
AddVisualData(p) == AddArtifact(p, "AddVisualData")

\* A handler calls o, one of GetThoughts, GetMentalModels, GetStochasticAlgorithms,
\* GetDecisions and GetVisualData.
CallGet(p, o) ==
  /\ \E s \in SessionIDs :
       Begin(p, [Idle EXCEPT !.pc = "getRLock", !.op = o, !.sid = s, !.todo = <<CollOf(o)>>])
  /\ UNCHANGED <<fixed, coll, sessions, heap, mutex, clock, crashed, nOk, nLimit>>

\* Get*: the collection's RLock().
GetRLock(p, o) ==
  /\ proc[p].pc = "getRLock"
  /\ proc[p].op = o
  /\ ~crashed
  /\ CanRLock(Head(proc[p].todo))
  /\ mutex' = RLocked(Head(proc[p].todo), p)
  /\ Goto(p, "getRead")
  /\ UNCHANGED <<fixed, coll, sessions, heap, clock, crashed, ret, calls, nOk, nLimit>>

GetAllOfFirstSession(c, sessionID) == IF sessionID = 1 THEN coll[c] ELSE {}

\* Get*: the loop that appends every entry of the map, whatever the session
\* ID asked for, and the return with the deferred RUnlock().
GetAll(c, sessionID) == coll[c]

\* The SessionStatistics GetSessionStats builds from what the five reads
\* returned and from the fields of the session (ToolsUsed left out: the model
\* has no artifact payloads to derive the labels from).
Statistics(sessionID, read, createdAt, lastAccessedAt, isActive) ==
  [kind |-> "stats",
   SessionID |-> sessionID,
   CreatedAt |-> createdAt,
   LastAccessedAt |-> lastAccessedAt,
   ThoughtCount |-> Cardinality(read["thoughts"]),
   TotalOperations |-> Cardinality(read["thoughts"]) + Cardinality(read["mentalModels"])
                       + Cardinality(read["stochasticAlgorithms"])
                       + Cardinality(read["decisions"]) + Cardinality(read["visualData"]),
   IsActive |-> isActive,
   RemainingThoughts |-> maxThoughts - Cardinality(read["thoughts"]),
   Stores |-> [c \in Collections |-> Cardinality(read[c])]]

\* The SessionExport ExportSession builds.
Export(sessionID, read) ==
  [kind |-> "export", Version |-> "1.0.0", SessionID |-> sessionID,
   SessionType |-> "hybrid", Data |-> read]

\* One Get* call inside o (o itself, GetSessionStats or ExportSession): the
\* read, the RUnlock(), and what o does next.
GetRead(p, o) ==
  /\ proc[p].pc = "getRead"
  /\ proc[p].op = o
  /\ ~crashed
  /\ LET c == Head(proc[p].todo)
         read == [proc[p].snap EXCEPT ![c] = GetAll(c, proc[p].sid)]
         rest == Tail(proc[p].todo)
     IN /\ mutex' = RUnlocked(c, p)
        /\ IF rest # << >>
           THEN /\ proc' = [proc EXCEPT ![p].snap = read, ![p].todo = rest,
                                        ![p].pc = "getRLock"]
                /\ UNCHANGED ret
           ELSE IF o = "GetSessionStats"
           THEN /\ proc' = [proc EXCEPT ![p].snap = read, ![p].todo = rest,
                                        ![p].pc = "statsBuild"]
                /\ UNCHANGED ret
           ELSE IF o = "ExportSession"
           THEN Return(p, Export(proc[p].sid, read))
           ELSE Return(p, [kind |-> "list", session |-> proc[p].sid, items |-> read[c]])
  /\ UNCHANGED <<fixed, coll, sessions, heap, clock, crashed, calls, nOk, nLimit>>

Get(p, o) ==
  \/ CallGet(p, o)
  \/ GetRLock(p, o)
  \/ GetRead(p, o)

GetThoughts(p) == Get(p, "GetThoughts")
GetMentalModels(p) == Get(p, "GetMentalModels")
GetStochasticAlgorithms(p) == Get(p, "GetStochasticAlgorithms")
GetDecisions(p) == Get(p, "GetDecisions")
GetVisualData(p) == Get(p, "GetVisualData")

\* A handler calls GetSessionStats: getSession first, then the five Get*.
CallGetSessionStats(p) ==
  /\ \E s \in SessionIDs :
       Begin(p, [Idle EXCEPT !.pc = "gsLock", !.ra = "getRLock", !.op = "GetSessionStats",
                             !.sid = s, !.todo = CollOrder])
  /\ UNCHANGED <<fixed, coll, sessions, heap, mutex, clock, crashed, nOk, nLimit>>

\* GetSessionStats: the statistics, from the five slices and the session's
\* fields, read without sessionsMutex.
StatsBuild(p) ==
  /\ proc[p].pc = "statsBuild"
  /\ ~crashed
  /\ LET o == heap[proc[p].session]
         racing == \E q \in Procs \ {p} : /\ proc[q].pc \in UnguardedWritePcs
                                          /\ proc[q].session = proc[p].session
     IN \E seen \in Torn(o.LastAccessedAt, racing) :
          Return(p, Statistics(proc[p].sid, proc[p].snap, o.CreatedAt, seen, o.IsActive))
  /\ UNCHANGED <<fixed, coll, sessions, heap, mutex, clock, crashed, calls, nOk, nLimit>>

GetSessionStats(p) ==
  \/ CallGetSessionStats(p)
  \/ GetRLock(p, "GetSessionStats")
  \/ GetRead(p, "GetSessionStats")
  \/ StatsBuild(p)

\* A handler calls ExportSession: the five Get*.
CallExportSession(p) ==
  /\ \E s \in SessionIDs :
       Begin(p, [Idle EXCEPT !.pc = "getRLock", !.op = "ExportSession", !.sid = s,
                             !.todo = CollOrder])
  /\ UNCHANGED <<fixed, coll, sessions, heap, mutex, clock, crashed, nOk, nLimit>>

ExportSession(p) ==
  \/ CallExportSession(p)
  \/ GetRLock(p, "ExportSession")
  \/ GetRead(p, "ExportSession")

\* --------------------------------------------------------------- repository
\* The three maps of SecurityRepository, the record IDs and the records tried.
RepoMaps == {"cves", "techniques", "procedures"}
\* A string is the sequence of its characters.
RecordIDs == {<<"a">>, <<"a", "b">>}
Descriptions == {<<"X">>, <<"b">>}
Records == [ID : RecordIDs, Description : Descriptions]

\* A map of the repository: ID -> the record held under it; NoRecord for an ID
\* with no entry.
NoRecord == [ID |-> << >>, Description |-> << >>]

RECURSIVE SeqsUpTo(_, _)
SeqsUpTo(S, n) ==
  IF n = 0 THEN {<< >>}
  ELSE LET shorter == SeqsUpTo(S, n - 1)
       IN shorter \cup {Append(q, x) : q \in {r \in shorter : Len(r) = n - 1}, x \in S}

\* NewSecurityRepository: three empty maps.
NewSecurityRepository ==
  /\ repo = [k \in RepoMaps |-> [id \in RecordIDs |-> NoRecord]]
  /\ repoLog = [k \in RepoMaps |-> << >>]
  /\ repoRet = [kind |-> "none"]

PutIfAbsent(m, rec) == IF m[rec.ID] = NoRecord THEN [m EXCEPT ![rec.ID] = rec] ELSE m

\* r.cves[cve.ID] = cve.
Put(m, rec) == [m EXCEPT ![rec.ID] = rec]

\* StoreCVEs' loop: StoreCVE for each element, in order.
RECURSIVE PutAll(_, _)
PutAll(m, recs) == IF recs = << >> THEN m ELSE PutAll(Put(m, Head(recs)), Tail(recs))

StoredSoFar == SumOver([k \in RepoMaps |-> Len(repoLog[k])], RepoMaps)

\* StoreCVE, StoreTechnique, StoreProcedure.
Store(k) ==
  /\ StoredSoFar < MaxStored
  /\ \E rec \in Records :
       /\ repo' = [repo EXCEPT ![k] = Put(@, rec)]
       /\ repoLog' = [repoLog EXCEPT ![k] = Append(@, rec)]
  /\ repoRet' = [kind |-> "nil"]
  /\ UNCHANGED <<maxThoughts, coll, sessions, heap, mutex, clock, crashed, proc, ret,
                 calls, budget, nOk, nLimit, retryVars>>

\* StoreCVEs, StoreTechniques, StoreProcedures.
StoreMany(k) ==
  /\ \E recs \in SeqsUpTo(Records, MaxBatch) :
       /\ StoredSoFar + Len(recs) <= MaxStored
       /\ repo' = [repo EXCEPT ![k] = PutAll(@, recs)]
       /\ repoLog' = [repoLog EXCEPT ![k] = @ \o recs]
  /\ repoRet' = [kind |-> "nil"]
  /\ UNCHANGED <<maxThoughts, coll, sessions, heap, mutex, clock, crashed, proc, ret,
                 calls, budget, nOk, nLimit, retryVars>>

\* fmt.Errorf("CVE %s not found", id).
NotFound(k, id) == [kind |-> "not found", map |-> k, id |-> id]

\* GetCVE, GetTechnique, GetProcedure.
GetRecord(k) ==
  /\ \E id \in RecordIDs :
       repoRet' = IF repo[k][id] = NoRecord THEN NotFound(k, id)
                  ELSE [kind |-> "found", map |-> k, id |-> id, record |-> repo[k][id]]
  /\ UNCHANGED <<maxThoughts, coll, sessions, heap, mutex, clock, crashed, proc, ret,
                 calls, budget, nOk, nLimit, retryVars, repo, repoLog>>

StoreCVE == Store("cves")
StoreCVEs == StoreMany("cves")
GetCVE == GetRecord("cves")
StoreTechnique == Store("techniques")
StoreTechniques == StoreMany("techniques")
GetTechnique == GetRecord("techniques")
StoreProcedure == Store("procedures")
StoreProcedures == StoreMany("procedures")
GetProcedure == GetRecord("procedures")

\* s[i:j] of a string, with Go's 0-based bounds.
Slice(s, i, j) == SubSeq(s, i + 1, j)

\* containsSubstring: the loop over every position of s.
containsSubstring(s, substr) ==
  \E i \in 0 .. Len(s) - Len(substr) : Slice(s, i, i + Len(substr)) = substr

\* contains (part_000 and part_005 hold the same function): equality, prefix,
\* suffix, then containsSubstring; characters are compared as they are.
contains(s, substr) ==
  /\ Len(s) >= Len(substr)
  /\ \/ s = substr
     \/ /\ Len(s) > Len(substr)
        /\ \/ Slice(s, 0, Len(substr)) = substr
           \/ Slice(s, Len(s) - Len(substr), Len(s)) = substr
           \/ containsSubstring(s, substr)

\* The test of the Query* loops; of a record's text fields the model keeps the
\* Description and the ID.
Matches(rec, q) ==
  \/ q = << >>
  \/ contains(rec.Description, q)
  \/ contains(rec.ID, q)

\* Go's int, two's complement: x as start + query.Limit computes it.
WrapInt(x) == ((x + IntMax + 1) % (2 * (IntMax + 1))) - (IntMax + 1)

\* The orders in which ranging over a map can yield the elements of S.
RECURSIVE Orders(_)
Orders(S) ==
  IF S = {} THEN {<< >>}
  ELSE UNION {{<<x>> \o rest : rest \in Orders(S \ {x})} : x \in S}

\* The integers and the query texts a client sends.
QueryInts == {-1, 0, 1, 2, IntMax}
QueryTexts == {<< >>, <<"a">>, <<"x">>}

SourceOf(k) ==
  IF k = "cves" THEN "NVD" ELSE IF k = "techniques" THEN "MITRE ATT&CK" ELSE "OWASP"

\* The pagination of the Query* methods on the results collected: the
\* response, or a panic when results[start:end] is out of range.
Paginate(k, results, q, limit, offset) ==
  LET total == Len(results)
      end0 == WrapInt(offset + limit)
      end == IF end0 > Len(results) THEN Len(results) ELSE end0
      start == IF offset > Len(results) THEN Len(results) ELSE offset
  IN IF 0 <= start /\ start <= end /\ end <= Len(results)
     THEN [kind |-> "response", map |-> k, Results |-> Slice(results, start, end),
           Total |-> total, Limit |-> limit, Offset |-> offset, Query |-> q,
           Source |-> SourceOf(k), start |-> start, end |-> end]
     ELSE [kind |-> "panic", map |-> k, Limit |-> limit, Offset |-> offset, Query |-> q,
           Total |-> total, start |-> start, end |-> end]

\* What a Query* method can return: the matching records in any order, paginated.
QueryResults(k, q, limit, offset) ==
  LET matching == {repo[k][id] : id \in {i \in RecordIDs : /\ repo[k][i] # NoRecord
                                                            /\ Matches(repo[k][i], q)}}
  IN {Paginate(k, results, q, limit, offset) : results \in Orders(matching)}

\* QueryCVEs, QueryTechniques, QueryProcedures.
Query(k) ==
  /\ \E q \in QueryTexts, limit \in QueryInts, offset \in QueryInts :
       repoRet' \in QueryResults(k, q, limit, offset)
  /\ UNCHANGED <<maxThoughts, coll, sessions, heap, mutex, clock, crashed, proc, ret,
                 calls, budget, nOk, nLimit, retryVars, repo, repoLog>>

QueryCVEs == Query("cves")
QueryTechniques == Query("techniques")
QueryProcedures == Query("procedures")

\* req.GetInt(key, default) of an argument that is absent (<< >>) or a number.
GetInt(arg, default) == IF arg = << >> THEN default ELSE arg[1]

\* The query_nvd tool: the arguments, QueryCVEs through QueryNVDData, and the
\* tool result: an error result when the query returned an error, a
\* "status": "success" text otherwise.
ToolResult(response) ==
  IF response.kind = "panic" THEN [response EXCEPT !.kind = "tool panic"]
  ELSE IF response.kind = "error" THEN [kind |-> "tool error", Query |-> response.Query,
                                        Limit |-> response.Limit]
  ELSE [kind |-> "tool result", status |-> "success", Query |-> response.Query,
        Total |-> response.Total, Limit |-> response.Limit, Offset |-> response.Offset,
        Results |-> response.Results]

QueryNVDTool ==
  /\ \E q \in QueryTexts, limit \in {<< >>, <<0>>, <<1>>}, offset \in {<< >>, <<1>>} :
       \E response \in QueryResults("cves", q, GetInt(limit, DefaultLimit),
                                     GetInt(offset, 0)) :
         repoRet' = ToolResult(response)
  /\ UNCHANGED <<maxThoughts, coll, sessions, heap, mutex, clock, crashed, proc, ret,
                 calls, budget, nOk, nLimit, retryVars, repo, repoLog>>

NextRepo ==
  \/ StoreCVE
  \/ StoreCVEs
  \/ GetCVE
  \/ StoreTechnique
  \/ StoreTechniques
  \/ GetTechnique
  \/ StoreProcedure
  \/ StoreProcedures
  \/ GetProcedure

\* Import, as the spec describes it: the thoughts of a bundle replayed through
\* AddThought under one session into a store that New has just made; held are
\* the thoughts inserted so far and count is the session's ThoughtCount.
RECURSIVE ReplayThoughts(_, _, _)
ReplayThoughts(todo, held, count) ==
  IF todo = {} THEN held
  ELSE LET t == CHOOSE x \in todo : TRUE
       IN IF ThoughtLimitReached(count, maxThoughts)
          THEN ReplayThoughts(todo \ {t}, held, count)
          ELSE ReplayThoughts(todo \ {t}, held \cup {AssignID(t, 0, 0)}, count + 1)

\* The artifacts of one of the other four collections replayed through its Add*
\* method: every one is inserted under its ID.
ReplayArtifacts(todo) == {AssignID(a, 0, 0) : a \in todo}

\* The five collections after the replay of a bundle's Data.
Reimport(data) ==
  [c \in Collections |->
     IF c = "thoughts" THEN ReplayThoughts(data[c], {}, 0) ELSE ReplayArtifacts(data[c])]

\* ------------------------------------------------------------ retry layer
\* float64 values: the naturals up to FloatMax (standing for math.MaxFloat64),
\* +Inf and NaN. time.Duration is an integer of DurationMax at most (standing
\* for math.MaxInt64).
Inf == FloatMax + 1
NaN == 0 - 1
IsFinite(x) == x # Inf /\ x # NaN

\* x * y in float64: overflow gives +Inf, 0 * +Inf gives NaN.
FMul(x, y) ==
  IF x = NaN \/ y = NaN THEN NaN
  ELSE IF (x = Inf /\ y = 0) \/ (x = 0 /\ y = Inf) THEN NaN
  ELSE IF x = Inf \/ y = Inf THEN Inf
  ELSE IF x * y > FloatMax THEN Inf
  ELSE x * y

\* x + y in float64.
FAdd(x, y) ==
  IF x = NaN \/ y = NaN THEN NaN
  ELSE IF x = Inf \/ y = Inf THEN Inf
  ELSE IF x + y > FloatMax THEN Inf
  ELSE x + y

\* x > y in float64: false when either is NaN.
FGreater(x, y) == x # NaN /\ y # NaN /\ x > y

\* math.Pow(x, n) for an integer n >= 0: Pow(x, 0) is 1 for every x.
RECURSIVE Pow(_, _)
Pow(x, n) == IF n = 0 THEN 1 ELSE FMul(x, Pow(x, n - 1))

\* time.Duration(x) of a float64: the integer when it has one; for NaN and for
\* a value out of range the result is implementation-dependent (Go spec,
\* Conversions): the smallest integer on amd64, 0 or the largest on arm64.
ToDuration(x) ==
  IF IsFinite(x) /\ x <= DurationMax THEN {x}
  ELSE {0 - DurationMax - 1, 0, DurationMax}

\* calculateDelay's jitter term, delay * 0.1 * (0.5 - 0.5).
JitterTerm(delay) == IF IsFinite(delay) THEN 0 ELSE NaN

\* calculateDelay(config, attempt): the durations it can return.
calculateDelay(cfg, attempt) ==
  LET raw == FMul(cfg.BaseDelay, Pow(cfg.Multiplier, attempt - 1))
      clamped == IF FGreater(raw, cfg.MaxDelay) THEN cfg.MaxDelay ELSE raw
      delay == IF cfg.Jitter THEN FAdd(clamped, JitterTerm(clamped)) ELSE clamped
  IN ToDuration(delay)

\* The RetryConfig values tried: MaxRetries from -1, the other fields from 0.
RetryConfigs ==
  [MaxRetries : -1 .. MaxRetriesBound, BaseDelay : 0 .. MaxDelayBound,
   MaxDelay : 0 .. MaxDelayBound, Multiplier : 0 .. MaxMultiplier, Jitter : BOOLEAN]

\* error values: nil, the error of fn's i-th invocation, ctx.Err(), and
\* fmt.Errorf("max retries exceeded: %w", err).
NilError == [kind |-> "nil", of |-> 0]
FnError(i) == [kind |-> "fn", of |-> i]
CtxErr == [kind |-> "context canceled", of |-> 0]
MaxRetriesExceeded(err) == [kind |-> "max retries exceeded", of |-> err.of]

\* The feeds of the ingestion pipeline, in its order, and the repository map of each.
Feeds == <<"NVD", "MITRE", "OWASP">>
MapOfFeed == <<"cves", "techniques", "procedures">>

\* No DownloadAndStoreAllIntelligence call is running.
NoPipeline ==
  [pc |-> "none", feed |-> 0, status |-> 0, invoked |-> <<0, 0, 0>>, stored |-> << >>,
   result |-> NilError]

\* RetryWithConfig has been called: lastErr nil, attempt 0. The context may
\* have been cancelled before the call; fn fails on its first fn.failFirst
\* invocations and succeeds on the next.
RetryInit ==
  /\ config \in RetryConfigs
  /\ fn \in [failFirst : 0 .. MaxRetriesBound + 1, retryable : {TRUE}]
  /\ \E c \in BOOLEAN :
       ctx = [cancelled |-> c, at |-> IF c THEN "before" ELSE "never", inv |-> 0]
  /\ retry = [pc |-> "top", attempt |-> 0, invocations |-> 0, lastErr |-> NilError,
              delay |-> 0, result |-> NilError]
  /\ pipeline = NoPipeline

\* The retry layer when only the store runs.
RetryUnused ==
  /\ config = [MaxRetries |-> 0, BaseDelay |-> 0, MaxDelay |-> 0, Multiplier |-> 0,
               Jitter |-> FALSE]
  /\ fn = [failFirst |-> 0, retryable |-> TRUE]
  /\ ctx = [cancelled |-> FALSE, at |-> "never", inv |-> 0]
  /\ retry = [pc |-> "none", attempt |-> 0, invocations |-> 0, lastErr |-> NilError,
              delay |-> 0, result |-> NilError]
  /\ pipeline = NoPipeline

\* The store when only the retry layer runs.
StoreUnused ==
  /\ StoreInit
  /\ maxThoughts = 0
  /\ budget = 0
  /\ NewSecurityRepository

LoopConditionOffByOne(attempt, maxRetries) == attempt < maxRetries

\* The for loop's condition.
LoopCondition(attempt, maxRetries) == attempt <= maxRetries

TopSelectNoCheck(cancelled) == "default"

\* The select at the top of the loop body: ctx.Done() when it is ready, the
\* default otherwise.
TopSelect(cancelled) == IF cancelled THEN "done" ELSE "default"

LastAttemptOffByOne(attempt, maxRetries) == attempt + 1 = maxRetries

\* The test that the failed attempt was the last one.
LastAttempt(attempt, maxRetries) == attempt = maxRetries

NextAttemptStuck(attempt) == attempt

\* The loop's post statement, attempt++.
NextAttempt(attempt) == attempt + 1

Returned(err) == retry' = [retry EXCEPT !.pc = "done", !.result = err]

\* The loop condition, the first select, and calculateDelay before the wait.
LoopTop ==
  /\ retry.pc = "top"
  /\ IF ~LoopCondition(retry.attempt, config.MaxRetries)
     THEN Returned(retry.lastErr)
     ELSE IF TopSelect(ctx.cancelled) = "done"
     THEN Returned(CtxErr)
     ELSE IF retry.attempt > 0
     THEN \E d \in calculateDelay(config, retry.attempt) :
            retry' = [retry EXCEPT !.pc = "wait", !.delay = d]
     ELSE retry' = [retry EXCEPT !.pc = "call"]
  /\ UNCHANGED <<config, fn, ctx, pipeline, storeVars>>

\* The second select, on entry: a case that is ready is taken (any of them when
\* both are); the timer is ready when its duration has elapsed, at once for a
\* delay of 0 or less. With no case ready the goroutine blocks.
WaitSelect ==
  /\ retry.pc = "wait"
  /\ \E elapsed \in IF retry.delay <= 0 THEN {TRUE} ELSE BOOLEAN :
       \/ /\ ctx.cancelled
          /\ Returned(CtxErr)
       \/ /\ elapsed
          /\ retry' = [retry EXCEPT !.pc = "call"]
       \/ /\ ~ctx.cancelled /\ ~elapsed
          /\ retry' = [retry EXCEPT !.pc = "blocked"]
  /\ UNCHANGED <<config, fn, ctx, pipeline, storeVars>>

\* The timer of time.After(delay) fires while the goroutine is blocked in the
\* select: the timer's case is taken.
TimerFires ==
  /\ retry.pc = "blocked"
  /\ retry' = [retry EXCEPT !.pc = "call"]
  /\ UNCHANGED <<config, fn, ctx, pipeline, storeVars>>

\* The goroutine was woken by ctx.Done(): return ctx.Err().
WokenByDone ==
  /\ retry.pc = "woken"
  /\ Returned(CtxErr)
  /\ UNCHANGED <<config, fn, ctx, pipeline, storeVars>>

\* The function the ingestion pipeline hands to Retry: it returns the
\* download's error both when IsRetryableError holds of it and when it does not.
DownloadClosure(err, retryable) ==
  IF err # NilError /\ retryable THEN err ELSE err

\* fn() and what follows it: nil is returned at once; after an error the last
\* attempt returns the wrapped error, any other continues the loop.
CallFn ==
  /\ retry.pc = "call"
  /\ LET i == retry.invocations + 1
         downloaded == IF i <= fn.failFirst THEN FnError(i) ELSE NilError
         err == DownloadClosure(downloaded, fn.retryable)
     IN IF err # NilError
        THEN IF LastAttempt(retry.attempt, config.MaxRetries)
             THEN retry' = [retry EXCEPT !.pc = "done", !.invocations = i,
                                         !.lastErr = err,
                                         !.result = MaxRetriesExceeded(err)]
             ELSE retry' = [retry EXCEPT !.pc = "top", !.invocations = i,
                                         !.lastErr = err,
                                         !.attempt = NextAttempt(retry.attempt)]
        ELSE retry' = [retry EXCEPT !.pc = "done", !.invocations = i, !.result = NilError]
  /\ UNCHANGED <<config, fn, ctx, pipeline, storeVars>>

RetryWithConfig ==
  \/ LoopTop
  \/ WaitSelect
  \/ WokenByDone
  \/ CallFn

\* The caller cancels the context while RetryWithConfig runs; a goroutine
\* blocked in the select is woken with the ctx.Done() case.
Cancel ==
  /\ retry.pc \in {"top", "wait", "blocked", "call"}
  /\ ~ctx.cancelled
  /\ ctx' = [cancelled |-> TRUE, at |-> retry.pc, inv |-> retry.invocations]
  /\ retry' = IF retry.pc = "blocked" THEN [retry EXCEPT !.pc = "woken"] ELSE retry
  /\ UNCHANGED <<config, fn, pipeline, storeVars>>

NextRetry ==
  \/ RetryWithConfig
  \/ TimerFires
  \/ Cancel

\* The goroutine running RetryWithConfig is scheduled, and a timer fires.
InitRetry == RetryInit /\ StoreUnused

SpecRetry ==
  /\ InitRetry
  /\ [][NextRetry]_vars
  /\ WF_vars(RetryWithConfig)
  /\ WF_vars(TimerFires)

\* ------------------------------------------- repository: specification
InitRepo ==
  /\ StoreInit /\ maxThoughts = 0 /\ budget = 0
  /\ RetryUnused
  /\ NewSecurityRepository

\* Calls of the repository's Store* and Get* methods, one after the other.
SpecRepo == InitRepo /\ [][NextRepo]_vars

NextQuery ==
  \/ QueryCVEs
  \/ QueryTechniques
  \/ QueryProcedures
  \/ QueryNVDTool

\* The repositories that Store* calls on a new repository lead to, up to
\* MaxRecords records: every record is kept under its own ID.
Repositories ==
  {r \in [RepoMaps -> [RecordIDs -> Records \cup {NoRecord}]] :
     /\ \A k \in RepoMaps, id \in RecordIDs : r[k][id] # NoRecord => r[k][id].ID = id
     /\ SumOver([k \in RepoMaps |-> Cardinality({id \in RecordIDs : r[k][id] # NoRecord})],
                RepoMaps) <= MaxRecords}

InitQuery ==
  /\ StoreInit /\ maxThoughts = 0 /\ budget = 0
  /\ RetryUnused
  /\ repo \in Repositories
  /\ repoLog = << >>
  /\ repoRet = [kind |-> "none"]

\* Queries of a repository that holds records, one after the other.
SpecQuery == InitQuery /\ [][NextQuery]_vars

\* ------------------------------------------------------ ingestion pipeline
\* DefaultRetryConfig(), durations in seconds.
DefaultRetryConfig ==
  [MaxRetries |-> 3, BaseDelay |-> 1, MaxDelay |-> 30, Multiplier |-> 2, Jitter |-> TRUE]

\* A DownloadAndStore* method has called Retry(ctx, closure): the download
\* fails on its first fn.failFirst invocations, with errors that
\* IsRetryableError classifies as fn.retryable.
InitIngest ==
  /\ StoreUnused
  /\ config = DefaultRetryConfig
  /\ fn \in [failFirst : 0 .. DefaultRetryConfig.MaxRetries + 1, retryable : BOOLEAN]
  /\ \E c \in BOOLEAN :
       ctx = [cancelled |-> c, at |-> IF c THEN "before" ELSE "never", inv |-> 0]
  /\ retry = [pc |-> "top", attempt |-> 0, invocations |-> 0, lastErr |-> NilError,
              delay |-> 0, result |-> NilError]
  /\ pipeline = NoPipeline

SpecIngest == InitIngest /\ [][NextRetry]_vars

\* An error text is the sequence of its words: no word of the downloaders'
\* texts holds a phrase of retryableErrors within it, so that contains finds a
\* phrase in the words exactly when it finds it in the bytes.
retryableErrors ==
  <<<<"timeout">>, <<"connection", "refused">>, <<"connection", "reset">>,
    <<"temporary", "failure">>, <<"rate", "limit">>, <<"too", "many", "requests">>,
    <<"service", "unavailable">>, <<"internal", "server", "error">>,
    <<"bad", "gateway">>, <<"gateway", "timeout">>>>

\* The HTTP statuses a feed's server answers a failing request with.
Statuses == {404, 429, 500, 503}

\* %d of a status code.
Itoa(status) ==
  IF status = 404 THEN "404" ELSE IF status = 429 THEN "429"
  ELSE IF status = 500 THEN "500" ELSE "503"

\* The text of the error DownloadCVEs returns for a status other than 200.
NVDStatusError(status) ==
  IF status = 429
  THEN <<"NVD", "API", "rate", "limit", "exceeded", "(429)", "-", "too", "many", "requests">>
  ELSE <<"NVD", "API", "returned", "status", Itoa(status)>>

\* The text of the error DownloadTechniques returns for a status other than 200.
MITREStatusError(status) == <<"MITRE", "API", "returned", "status", Itoa(status)>>

\* The text of the error the download of a feed returns: DownloadAllCVEs wraps
\* the error of DownloadCVEs.
DownloadError(feed, status) ==
  IF feed = "NVD"
  THEN <<"failed", "to", "download", "CVEs", "at", "index", "0:">> \o NVDStatusError(status)
  ELSE MITREStatusError(status)

\* IsRetryableError of an error with the text given; << >> stands for nil.
IsRetryableError(errStr) ==
  IF errStr = << >> THEN FALSE
  ELSE \E i \in 1 .. Len(retryableErrors) : contains(errStr, retryableErrors[i])

\* How the download of feed i can behave: the OWASP procedures are built in
\* and their download returns no error; the other two fail on their first
\* failFirst requests with the status given.
FeedBehaviours(i) ==
  IF Feeds[i] = "OWASP" THEN {[failFirst |-> 0, status |-> 0]}
  ELSE [failFirst : 0 .. DefaultRetryConfig.MaxRetries + 1, status : Statuses]

\* The records a successful download of a feed yields.
FeedBatches == {<<[ID |-> id, Description |-> <<"X">>]>> : id \in RecordIDs}

\* DownloadAndStore*Data calls Retry(ctx, closure) for feed i.
CallRetry(i, b) ==
  /\ fn' = [failFirst |-> b.failFirst,
            retryable |-> IF b.failFirst = 0 THEN FALSE
                          ELSE IsRetryableError(DownloadError(Feeds[i], b.status))]
  /\ retry' = [pc |-> "top", attempt |-> 0, invocations |-> 0, lastErr |-> NilError,
               delay |-> 0, result |-> NilError]

\* fmt.Errorf("failed to download NVD data: %w", err).
FeedFailed(i) == [kind |-> "failed to download data", of |-> i]

AfterRetryIgnoringError(err) == "store"

\* DownloadAndStore*Data after Retry: return the error, or store the records.
AfterRetry(err) == IF err # NilError THEN "return" ELSE "store"

\* DownloadAndStoreAllIntelligence after the Retry of the feed it is at has
\* returned: on an error the pipeline returns it; otherwise the records are
\* stored and the next feed is begun, or nil is returned after the last.
DownloadAndStoreAllIntelligence ==
  /\ pipeline.pc = "retry"
  /\ retry.pc = "done"
  /\ LET i == pipeline.feed
         invoked == [pipeline.invoked EXCEPT ![i] = retry.invocations]
     IN IF AfterRetry(retry.result) = "return"
        THEN /\ pipeline' = [pipeline EXCEPT !.pc = "done", !.invoked = invoked,
                                             !.result = FeedFailed(i)]
             /\ UNCHANGED <<fn, retry, repoVars>>
        ELSE /\ \E recs \in IF retry.result = NilError THEN FeedBatches ELSE {<< >>} :
                  /\ repo' = [repo EXCEPT ![MapOfFeed[i]] = PutAll(@, recs)]
                  /\ repoLog' = [repoLog EXCEPT ![MapOfFeed[i]] = @ \o recs]
             /\ repoRet' = [kind |-> "nil"]
             /\ IF i = Len(Feeds)
                THEN /\ pipeline' = [pipeline EXCEPT !.pc = "done", !.invoked = invoked,
                                                     !.stored = Append(@, Feeds[i]),
                                                     !.result = NilError]
                     /\ UNCHANGED <<fn, retry>>
                ELSE \E b \in FeedBehaviours(i + 1) :
                       /\ pipeline' = [pipeline EXCEPT !.feed = i + 1, !.status = b.status,
                                                       !.invoked = invoked,
                                                       !.stored = Append(@, Feeds[i])]
                       /\ CallRetry(i + 1, b)
  /\ UNCHANGED <<maxThoughts, coll, sessions, heap, mutex, clock, crashed, proc, ret,
                 calls, budget, nOk, nLimit, config, ctx>>

NextPipeline ==
  \/ RetryWithConfig
  \/ TimerFires
  \/ Cancel
  \/ DownloadAndStoreAllIntelligence

\* DownloadAndStoreAllIntelligence has been called on a new repository and has
\* called Retry for the first feed; the context may already be cancelled.
InitPipeline ==
  /\ StoreUnused
  /\ config = DefaultRetryConfig
  /\ \E c \in BOOLEAN :
       ctx = [cancelled |-> c, at |-> IF c THEN "before" ELSE "never", inv |-> 0]
  /\ \E b \in FeedBehaviours(1) :
       /\ pipeline = [NoPipeline EXCEPT !.pc = "retry", !.feed = 1, !.status = b.status]
       /\ fn = [failFirst |-> b.failFirst,
                retryable |-> IF b.failFirst = 0 THEN FALSE
                              ELSE IsRetryableError(DownloadError(Feeds[1], b.status))]
  /\ retry = [pc |-> "top", attempt |-> 0, invocations |-> 0, lastErr |-> NilError,
              delay |-> 0, result |-> NilError]

SpecPipeline == InitPipeline /\ [][NextPipeline]_vars

\* ------------------------------------------------- store: specifications
\* Concurrent AddThought calls only.
NextThoughts == \E p \in Procs : AddThought(p) \/ getSession(p)

InitThoughts ==
  StoreInit /\ budget = MaxThoughtCalls /\ RetryUnused /\ NewSecurityRepository

SpecThoughts == InitThoughts /\ [][NextThoughts]_vars

\* AddThought and CreateSession calls.
NextSessions == \E p \in Procs : AddThought(p) \/ getSession(p) \/ CreateSession(p)

InitSessions ==
  StoreInit /\ budget = MaxThoughtCalls /\ RetryUnused /\ NewSecurityRepository

SpecSessions == InitSessions /\ [][NextSessions]_vars

\* Concurrent AddThought, GetSessionStats and ExportSession calls.
NextStats ==
  \E p \in Procs :
    \/ AddThought(p)
    \/ GetSessionStats(p)
    \/ ExportSession(p)
    \/ getSession(p)

InitStats ==
  StoreInit /\ budget = MaxThoughtCalls /\ RetryUnused /\ NewSecurityRepository

SpecStats == InitStats /\ [][NextStats]_vars

\* Concurrent calls of the Add*, Get*, GetSessionStats and ExportSession methods.
Next ==
  \E p \in Procs :
    \/ AddThought(p)
    \/ AddMentalModel(p)
    \/ AddStochasticAlgorithm(p)
    \/ AddDecision(p)
    \/ AddVisualData(p)
    \/ GetThoughts(p)
    \/ GetMentalModels(p)
    \/ GetStochasticAlgorithms(p)
    \/ GetDecisions(p)
    \/ GetVisualData(p)
    \/ GetSessionStats(p)
    \/ ExportSession(p)
    \/ getSession(p)

Init == StoreInit /\ budget = MaxCalls /\ RetryUnused /\ NewSecurityRepository

Spec == Init /\ [][Next]_vars

\* --------------------------------------------------- store: the claims
AllReturned == \A p \in Procs : proc[p].pc = "idle"

\* C1: with only AddThought calls running, under every interleaving, a session
\* never has more successful calls than the quota (no overshoot), a call is
\* rejected with the limit error only once the quota of calls has succeeded
\* (no undershoot), and every call returns one of the two results; so of
\* N > quota calls on a fresh session exactly quota return nil and N - quota
\* the limit error.
C1_ExactlyQuotaSucceed ==
  /\ \A s \in SessionIDs : nOk[s] <= maxThoughts
  /\ \A s \in SessionIDs : nLimit[s] > 0 => nOk[s] = maxThoughts
  /\ AllReturned => SumOver(nOk, SessionIDs) + SumOver(nLimit, SessionIDs) = calls
  /\ \A s \in SessionIDs :
       AllReturned /\ nOk[s] + nLimit[s] > maxThoughts
         => nOk[s] = maxThoughts /\ nLimit[s] = nOk[s] + nLimit[s] - maxThoughts

\* Three calls on one session of quota 2 have all returned: two nil, one error.
C1_Witness ==
  \E s \in SessionIDs :
    AllReturned /\ maxThoughts = 2 /\ nOk[s] = 2 /\ nLimit[s] = 1

\* C2: from AddThought's quota check until its increment of ThoughtCount is
\* written, the goroutine holds sessionsMutex exclusively.
C2_CheckAndIncrementUnderSessionsMutex ==
  \A p \in Procs : proc[p].pc \in {"atCheck", "atInsert"} => mutex["sessions"].w = p

\* C3: for every session ID at most one SessionData object is ever created by
\* getSession, and every caller that got a pointer from getSession holds the
\* object the registry holds for that ID.
C3_OneSessionObjectPerKey ==
  /\ \A s \in SessionIDs : Cardinality({i \in 1 .. Len(heap) : heap[i].ID = s}) <= 1
  /\ \A p \in Procs : proc[p].session # 0 => proc[p].session = sessions[proc[p].sid]

\* C4: no state is reachable in which two operations are about to access the
\* session registry at the same time, one of them writing it without holding
\* sessionsMutex.
C4_NoConcurrentRegistryWrite == \A p \in Procs : ~Racing(p)

\* The collection mutexes p holds (Lock or RLock).
HeldCollections(p) == {c \in Collections : mutex[c].w = p \/ p \in mutex[c].r}

\* C5: no operation holds the locks of two collections at once, and whenever a
\* call is in progress some step can be taken (no state in which the started
\* calls can never return).
C5_NoDeadlock ==
  /\ \A p \in Procs : Cardinality(HeldCollections(p)) <= 1
  /\ (\E p \in Procs : proc[p].pc # "idle") => ENABLED Next

RetryDone == retry.pc = "done"

\* C6: when the operation fails on its first k invocations, 0 <= k <= MaxRetries,
\* and succeeds on the next, and the context is never cancelled,
\* RetryWithConfig returns nil after exactly k + 1 invocations.
C6_SuccessAfterKFailures ==
  (/\ RetryDone
   /\ ctx.at = "never"
   /\ config.MaxRetries >= 0
   /\ fn.failFirst <= config.MaxRetries)
  => /\ retry.result = NilError
     /\ retry.invocations = fn.failFirst + 1

C6_Witness ==
  /\ RetryDone
  /\ ctx.at = "never"
  /\ config.MaxRetries = 3
  /\ fn.failFirst = 2
  /\ retry.invocations = 3
  /\ retry.result = NilError

\* C7: when every invocation fails and the context is never cancelled,
\* RetryWithConfig with MaxRetries = m >= 0 invokes the operation exactly m + 1
\* times and returns "max retries exceeded" wrapping the last invocation's error.
C7_ExhaustedAfterMaxRetries ==
  (/\ RetryDone
   /\ ctx.at = "never"
   /\ config.MaxRetries >= 0
   /\ fn.failFirst > config.MaxRetries)
  => /\ retry.invocations = config.MaxRetries + 1
     /\ retry.result = MaxRetriesExceeded(FnError(config.MaxRetries + 1))

C7_Witness ==
  /\ RetryDone
  /\ ctx.at = "never"
  /\ config.MaxRetries = 2
  /\ fn.failFirst = 3
  /\ retry.invocations = 3
  /\ retry.result.kind = "max retries exceeded"

C9_Terminates ==
  /\ <>RetryDone
  /\ [](retry.invocations <= config.MaxRetries + 1)

C9_Witness ==
  /\ RetryDone
  /\ config.MaxRetries = MaxRetriesBound
  /\ retry.invocations = MaxRetriesBound + 1
  /\ ctx.at = "call"

\* C10: with non-negative BaseDelay, MaxDelay and Multiplier, Jitter on or off,
\* the delay calculateDelay returns for an attempt in 1 .. MaxRetries is at
\* least 0 and at most MaxDelay.
C10_DelayWithinBounds ==
  retry.pc \in {"wait", "blocked", "woken"}
  => /\ retry.attempt \in 1 .. config.MaxRetries
     /\ retry.delay >= 0
     /\ retry.delay <= config.MaxDelay

\* C11: in the ingestion pipeline a download that fails with an error for
\* which IsRetryableError is false is attempted exactly once, and that error
\* is what Retry returns.
C11_NonRetryableAttemptedOnce ==
  (/\ RetryDone
   /\ ctx.at = "never"
   /\ fn.failFirst >= 1
   /\ ~fn.retryable)
  => /\ retry.invocations = 1
     /\ retry.result = FnError(1)

ThoughtCountOf(s) == IF sessions[s] = 0 THEN 0 ELSE heap[sessions[s]].ThoughtCount

SuccessfulAddThought(p, s) ==
  /\ proc[p].pc = "atInsert"
  /\ proc[p].sid = s
  /\ ret'[p].kind = "ok"

\* C13: a session's ThoughtCount changes only in a step that completes a
\* successful AddThought on that session, and that step increases it by exactly
\* 1; the other Add* methods leave every session's ThoughtCount unchanged.
C13_ThoughtCountOnlyByAddThought ==
  [][\A s \in SessionIDs :
       /\ ThoughtCountOf(s)' # ThoughtCountOf(s)
            => \E p \in Procs : SuccessfulAddThought(p, s)
       /\ (\E p \in Procs : SuccessfulAddThought(p, s))
            => ThoughtCountOf(s)' = ThoughtCountOf(s) + 1]_vars

\* Goroutine p's step inserts, into collection c, an artifact that came with an
\* empty ID.
InsertsWithGeneratedID(p, c) ==
  /\ proc[p].art = NoID
  /\ \/ /\ proc[p].pc = "atInsert" /\ c = "thoughts"
        /\ ret'[p].kind = "ok"
     \/ /\ proc[p].pc = "addLock" /\ c = CollOf(proc[p].op)
        /\ proc'[p].pc = "gsLock"

\* C14: every insertion of an artifact that came with an empty ID grows its
\* collection by exactly one entry: the generated ID is not one already held.
C14_GeneratedIDsCollisionFree ==
  [][\A p \in Procs : \A c \in Collections :
       InsertsWithGeneratedID(p, c)
       => Cardinality(coll'[c]) = Cardinality(coll[c]) + 1]_vars

\* C15: every session's stored RemainingThoughts equals MaxThoughtsPerSession
\* minus its ThoughtCount.
C15_RemainingIsQuotaMinusCount ==
  \A s \in SessionIDs :
    sessions[s] # 0
    => heap[sessions[s]].RemainingThoughts = maxThoughts - heap[sessions[s]].ThoughtCount

\* C16: the RemainingThoughts that GetSessionStats reports is never below zero.
C16_ReportedRemainingNonNegative ==
  \A p \in Procs : ret[p].kind = "stats" => ret[p].RemainingThoughts >= 0

\* C17: no step of a GetSessionStats call changes the five collections, the
\* registry's set of sessions or any session's fields.
C17_GetSessionStatsReadOnly ==
  [][\A p \in Procs :
       (proc[p].op = "GetSessionStats" /\ proc'[p] # proc[p])
       => /\ coll' = coll
          /\ sessions' = sessions
          /\ heap' = heap]_vars

\* The sum of the sizes of the five collections as read.
TotalRead(read) == SumOver([c \in Collections |-> Cardinality(read[c])], Collections)

C19_ReimportPreservesCounts ==
  \A p \in Procs :
    ret[p].kind = "export"
    => \A c \in Collections :
         Cardinality(Reimport(ret[p].Data)[c]) = Cardinality(ret[p].Data[c])

\* The record most recently stored under id in a log of stored records.
RECURSIVE LastStored(_, _)
LastStored(log, id) ==
  IF log = << >> THEN NoRecord
  ELSE IF log[Len(log)].ID = id THEN log[Len(log)]
  ELSE LastStored(SubSeq(log, 1, Len(log) - 1), id)

StoredIDs(log) == {log[i].ID : i \in 1 .. Len(log)}

UpsertLastWriteWins ==
  \A k \in RepoMaps :
    /\ \A id \in RecordIDs : repo[k][id] = LastStored(repoLog[k], id)
    /\ Cardinality({id \in RecordIDs : repo[k][id] # NoRecord})
         = Cardinality(StoredIDs(repoLog[k]))

\* C20: after any sequence of Store and StoreMany calls each map of the
\* repository holds, under every ID, the record most recently stored under it
\* (the later element within one batch), and as many records as distinct IDs
\* were stored; a Get returns that record, or for an ID never stored a
\* not-found error naming the ID, and changes nothing.
C20_UpsertLastWriteWins ==
  [][/\ UpsertLastWriteWins'
     /\ repoRet'.kind = "found"
          => repoRet'.record = LastStored(repoLog[repoRet'.map], repoRet'.id)
     /\ repoRet'.kind = "not found"
          => /\ repoRet'.id \notin StoredIDs(repoLog[repoRet'.map])
             /\ repoRet' = NotFound(repoRet'.map, repoRet'.id)
     /\ repoRet'.kind \in {"found", "not found"}
          => repo' = repo /\ repoLog' = repoLog]_vars

C20_Witness ==
  /\ repoRet.kind = "found"
  /\ repoRet.map = "cves"
  /\ Len(repoLog["cves"]) = 3
  /\ repoLog["cves"][1].ID = repoRet.id
  /\ repoLog["cves"][3].ID = repoRet.id
  /\ repoLog["cves"][1].Description # repoLog["cves"][3].Description
  /\ repoRet.record = repoLog["cves"][3]

\* The records of map k that a query for q matches.
Matching(k, q) ==
  {repo[k][id] : id \in {i \in RecordIDs : repo[k][i] # NoRecord /\ Matches(repo[k][i], q)}}

Smaller(a, b) == IF a < b THEN a ELSE b
Larger(a, b) == IF a > b THEN a ELSE b
IsQueryReturn == repoRet.kind \in {"response", "panic"}

\* C21: a Query* call with limit >= 0 and offset >= 0 returns a response whose
\* Total is the number of all matching records and whose Results are exactly
\* min(limit, max(0, Total - offset)) matching records, with Limit and Offset
\* echoed; an offset beyond Total gives empty Results and no failure.
C21_PaginationContract ==
  (IsQueryReturn /\ repoRet.Limit >= 0 /\ repoRet.Offset >= 0) =>
    /\ repoRet.kind = "response"
    /\ repoRet.Total = Cardinality(Matching(repoRet.map, repoRet.Query))
    /\ Len(repoRet.Results) =
         Smaller(repoRet.Limit, Larger(0, repoRet.Total - repoRet.Offset))
    /\ \A i \in 1 .. Len(repoRet.Results) :
         repoRet.Results[i] \in Matching(repoRet.map, repoRet.Query)

\* C22: QueryCVEs for the exact ID of a stored CVE with limit 1 and offset 0
\* returns Total = 1 and that CVE as Results[0], whatever else is stored.
C22_ExactIDFindsOnlyThatRecord ==
  ( /\ repoRet.kind = "response" /\ repoRet.map = "cves"
    /\ repoRet.Limit = 1 /\ repoRet.Offset = 0
    /\ repoRet.Query \in RecordIDs
    /\ repo["cves"][repoRet.Query] # NoRecord ) =>
    /\ repoRet.Total = 1
    /\ Len(repoRet.Results) = 1
    /\ repoRet.Results[1].ID = repoRet.Query

IsToolReturn == repoRet.kind \in {"tool result", "tool error", "tool panic"}

\* C23: a query_nvd tool call with an empty query and limit 0 produces an
\* error response, not a success response.
C23_EmptyQueryLimitZeroIsError ==
  (IsToolReturn /\ repoRet.Query = << >> /\ repoRet.Limit = 0) =>
    repoRet.kind = "tool error"

\* The lower-case form of a string over the letters in use.
ToLower(s) == [i \in 1 .. Len(s) |-> IF s[i] = "X" THEN "x" ELSE s[i]]

\* s holds substr at some position, letter case ignored.
ContainsIgnoringCase(s, substr) ==
  \E i \in 0 .. Len(s) - Len(substr) :
    ToLower(Slice(s, i, i + Len(substr))) = ToLower(substr)

\* C24: contains is a case-insensitive substring test, so a query counts every
\* stored record whose Description or ID holds the query text in any letter case.
C24_ContainsIgnoresCase ==
  repoRet.kind = "response" =>
    repoRet.Total =
      Cardinality({id \in RecordIDs :
        /\ repo[repoRet.map][id] # NoRecord
        /\ \/ repoRet.Query = << >>
           \/ ContainsIgnoringCase(repo[repoRet.map][id].Description, repoRet.Query)
           \/ ContainsIgnoringCase(repo[repoRet.map][id].ID, repoRet.Query)})

\* C29: for every integer limit and offset, negative ones and limit 0 included,
\* the slice indices satisfy 0 <= start <= end <= number of matches, so that
\* the query returns a response and never panics.
C29_SliceIndicesInRange ==
  IsQueryReturn =>
    /\ repoRet.kind = "response"
    /\ 0 <= repoRet.start
    /\ repoRet.start <= repoRet.end
    /\ repoRet.end <= repoRet.Total

\* Feed j's map holds exactly what the pipeline stored of feed j: its one batch.
FeedRecordsPresent(j) ==
  /\ Len(repoLog[MapOfFeed[j]]) = 1
  /\ repo[MapOfFeed[j]][repoLog[MapOfFeed[j]][1].ID] = repoLog[MapOfFeed[j]][1]

FeedRecordsAbsent(j) ==
  /\ repoLog[MapOfFeed[j]] = << >>
  /\ \A id \in RecordIDs : repo[MapOfFeed[j]][id] = NoRecord

\* C26: DownloadAndStoreAllIntelligence handles the feeds in the order NVD,
\* MITRE, OWASP; when the (retried) download of a feed fails or is cancelled,
\* nothing of that feed is stored, no later feed is downloaded or stored, an
\* error is returned, and the records of the earlier feeds remain.
C26_PipelineStopsAtFirstFailure ==
  pipeline.pc # "none" =>
    /\ pipeline.stored = SubSeq(Feeds, 1, Len(pipeline.stored))
    /\ \A j \in 1 .. Len(Feeds) :
         /\ j <= Len(pipeline.stored) => FeedRecordsPresent(j)
         /\ j > Len(pipeline.stored) => FeedRecordsAbsent(j)
         /\ j > pipeline.feed => pipeline.invoked[j] = 0
    /\ retry.invocations > 0 => Len(pipeline.stored) >= pipeline.feed - 1
    /\ (pipeline.pc = "done" /\ retry.result # NilError) =>
         /\ pipeline.result = FeedFailed(pipeline.feed)
         /\ pipeline.stored = SubSeq(Feeds, 1, pipeline.feed - 1)
    /\ (pipeline.pc = "done" /\ retry.result = NilError) =>
         /\ pipeline.result = NilError
         /\ pipeline.stored = Feeds

\* The MITRE download failed on every attempt after the NVD feed was stored.
C26_Witness ==
  /\ pipeline.pc = "done"
  /\ pipeline.feed = 2
  /\ pipeline.result = FeedFailed(2)
  /\ retry.result.kind = "max retries exceeded"
  /\ pipeline.stored = <<"NVD">>
  /\ FeedRecordsPresent(1)
  /\ FeedRecordsAbsent(2)
  /\ FeedRecordsAbsent(3)

\* C27: every HTTP 5xx status from the NVD or the MITRE feed gives a download
\* error of which IsRetryableError holds, and so does 429; IsRetryableError(nil)
\* is false.
C27_ServerErrorsAreRetryable ==
  /\ ~IsRetryableError(<< >>)
  /\ ( /\ pipeline.pc = "retry"
       /\ fn.failFirst > 0
       /\ Feeds[pipeline.feed] \in {"NVD", "MITRE"}
       /\ (pipeline.status >= 500 \/ pipeline.status = 429) ) =>
       fn.retryable

\* x^n over the integers.
RECURSIVE IntPow(_, _)
IntPow(x, n) == IF n = 0 THEN 1 ELSE x * IntPow(x, n - 1)

\* C25: no wait precedes the first invocation; the wait before invocation
\* a + 1 (a >= 1) lasts min(MaxDelay, BaseDelay * Multiplier^(a-1)); and
\* calculateDelay returns the same with Jitter on as with Jitter off.
C25_RetrySchedule ==
  /\ (retry.pc = "call" /\ retry.attempt = 0) => retry.invocations = 0
  /\ retry.pc \in {"wait", "blocked", "woken"} =>
       /\ retry.attempt >= 1
       /\ retry.invocations = retry.attempt
       /\ retry.delay = Smaller(config.MaxDelay,
                                config.BaseDelay * IntPow(config.Multiplier, retry.attempt - 1))
       /\ calculateDelay([config EXCEPT !.Jitter = TRUE], retry.attempt)
            = calculateDelay([config EXCEPT !.Jitter = FALSE], retry.attempt)

\* C28: for every RetryConfig, MaxRetries of 0 or below included, and every
\* state of the context, RetryWithConfig returns nil only when fn was invoked
\* at least once and its last invocation returned nil.
C28_NilOnlyAfterSuccess ==
  (retry.pc = "done" /\ retry.result = NilError) =>
    /\ retry.invocations >= 1
    /\ retry.invocations > fn.failFirst

\* C30: after any AddThought calls (with empty or caller-supplied thought IDs,
\* for any sessions) and CreateSession calls, the ThoughtCounts of the sessions
\* add up to the number of thoughts in the thoughts collection, and no session
\* counts more thoughts than MaxThoughtsPerSession.
C30_CountersAgreeWithCollection ==
  (AllReturned /\ ~crashed) =>
    /\ SumOver([s \in SessionIDs |-> ThoughtCountOf(s)], SessionIDs)
         = Cardinality(coll["thoughts"])
    /\ \A s \in SessionIDs : ThoughtCountOf(s) <= maxThoughts

====
